---- MODULE Spec2Model ----
(***************************************************************************)
(* Model of admin/extra-aliases.py: the script that creates or removes a   *)
(* network alias (netplan file), an nginx proxy site and three duplicated  *)
(* ingresses, with a dry-run mode.                                         *)
(*                                                                         *)
(* Text.  A Python str is modelled as a sequence of tokens.  The text an   *)
(* operator types (user, host, ip, port) is a sequence of one-character    *)
(* tokens; a literal of the program is one token per literal piece.  The   *)
(* five read-only patterns of run_command are tokens of their own, so that *)
(* "pattern in cmd" is containment of a token in the command's sequence;   *)
(* an argument that contains the text of a pattern is written with that    *)
(* token.  No pattern is formed across a boundary between a literal and an *)
(* argument: no literal of a command ends with the beginning of a pattern, *)
(* and the literals that follow an argument ("-", " ", ".yaml",            *)
(* " -n nuvolaris") complete none.                                         *)
(***************************************************************************)
EXTENDS Integers, Sequences, FiniteSets

VARIABLES
    DRY_RUN,     \* module flag DRY_RUN of this invocation
    argv,        \* sys.argv[1:] of this invocation
    pc,          \* position in main()
    frame,       \* the local variables of main()
    fs,          \* the filesystem: path -> content
    cluster,     \* the ingresses of namespace nuvolaris: name -> manifest
    env,         \* what the host answers: addresses, interfaces, apihost, tools
    out,         \* what this invocation did and printed, in order
    exit_code,   \* -1 while running, then the exit code of the process
    faults,      \* commands made to fail by the environment so far
    runs,        \* the finished invocations, oldest first
    fin,         \* input of the pure function under check
    fout         \* its result

vars == <<DRY_RUN, argv, pc, frame, fs, cluster, env, out, exit_code, faults, runs, fin, fout>>

(***************************************************************************)
(* Bounds                                                                  *)
(***************************************************************************)
MaxLen == 3
MaxRuns == 2
MaxFaults == 1

(***************************************************************************)
(* Text                                                                    *)
(***************************************************************************)
Digits == <<"0", "1", "2", "3", "4", "5", "6", "7", "8", "9">>

IsDigit(c) == \E d \in 1..10 : Digits[d] = c

DigitValue(c) == (CHOOSE d \in 1..10 : Digits[d] = c) - 1

RECURSIVE StrNat(_)
StrNat(n) == IF n < 10 THEN <<Digits[n + 1]>> ELSE StrNat(n \div 10) \o <<Digits[(n % 10) + 1]>>

\* f"{port}" of a Python int
Str(n) == IF n < 0 THEN <<"-">> \o StrNat(-n) ELSE StrNat(n)

RECURSIVE NatOf(_)
NatOf(s) == IF s = <<>> THEN 0 ELSE 10 * NatOf(SubSeq(s, 1, Len(s) - 1)) + DigitValue(s[Len(s)])

Signed(s) == s # <<>> /\ s[1] \in {"-", "+"}

Unsigned(s) == IF Signed(s) THEN Tail(s) ELSE s

\* int(s) raises ValueError unless s is an optional sign followed by digits
IsInt(s) == Unsigned(s) # <<>> /\ \A i \in 1..Len(Unsigned(s)) : IsDigit(Unsigned(s)[i])

\* int(s)
ParseInt(s) == IF Signed(s) /\ s[1] = "-" THEN 0 - NatOf(Unsigned(s)) ELSE NatOf(Unsigned(s))

\* s.replace('.', '-')
RECURSIVE Replace(_)
Replace(s) ==
    IF s = <<>> THEN <<>>
    ELSE <<IF Head(s) = "." THEN "-" ELSE Head(s)>> \o Replace(Tail(s))

\* pattern in cmd, for a pattern that is one token
Contains(cmd, pattern) == \E i \in 1..Len(cmd) : cmd[i] = pattern

\* s.startswith(prefix), for a prefix that is one token
StartsWith(s, prefix) == s # <<>> /\ s[1] = prefix

\* index of the first token equal to sep, 0 when there is none
FirstIndex(s, sep) ==
    IF \E i \in 1..Len(s) : s[i] = sep
    THEN CHOOSE i \in 1..Len(s) : s[i] = sep /\ \A j \in 1..(i - 1) : s[j] # sep
    ELSE 0

\* s.split(sep)[0]
BeforeFirst(s, sep) == IF FirstIndex(s, sep) = 0 THEN s ELSE SubSeq(s, 1, FirstIndex(s, sep) - 1)

\* s.split(sep, 1)[1]
AfterFirst(s, sep) == SubSeq(s, FirstIndex(s, sep) + 1, Len(s))

\* every text of 1..n tokens over an alphabet
RECURSIVE TextsUpTo(_, _)
TextsUpTo(alphabet, n) ==
    IF n = 0 THEN {}
    ELSE LET shorter == TextsUpTo(alphabet, n - 1)
         IN  {<<c>> : c \in alphabet} \cup shorter \cup {t \o <<c>> : t \in shorter, c \in alphabet}

\* " ".join(parts)
RECURSIVE Join(_)
Join(parts) ==
    IF parts = <<>> THEN <<>>
    ELSE IF Len(parts) = 1 THEN parts[1]
    ELSE parts[1] \o <<" ">> \o Join(Tail(parts))

\* s.strip().split(): the maximal runs of tokens other than the blank
RECURSIVE Split(_)
Split(s) ==
    IF s = <<>> THEN <<>>
    ELSE IF Head(s) = " " THEN Split(Tail(s))
    ELSE <<BeforeFirst(s, " ")>> \o
         (IF FirstIndex(s, " ") = 0 THEN <<>> ELSE Split(AfterFirst(s, " ")))

\* argument.lower(), token by token
Lower(s) ==
    [i \in 1..Len(s) |->
        CASE s[i] = "TRUE" -> "true"
          [] s[i] = "True" -> "true"
          [] s[i] = "Yes" -> "yes"
          [] s[i] = "YES" -> "yes"
          [] OTHER -> s[i]]

(***************************************************************************)
(* Dictionaries (Python dict): a function on the keys present              *)
(***************************************************************************)
\* d.pop(k, None)
pop(d, k) == [x \in DOMAIN d \ {k} |-> d[x]]

\* d[k] = v
put(d, k, v) == [x \in DOMAIN d \cup {k} |-> IF x = k THEN v ELSE d[x]]

\* yaml.dump(d) and yaml.safe_load(text): PyYAML's contract, load(dump(d)) = d;
\* safe_load of a text that is no mapping yields no dict
YamlDump(d) == [yaml |-> d]

YamlLoad(text) == text.yaml

(***************************************************************************)
(* Names, paths and file contents, each as its function formats it         *)
(***************************************************************************)
\* the three ingresses taken last to first
ingress_suffixes_reversed ==
    << <<"static", "-", "ingress">>,
       <<"apihost", "-", "my", "-", "api", "-", "ingress">>,
       <<"apihost", "-", "api", "-", "ingress">> >>

ingress_suffixes ==
    << <<"apihost", "-", "api", "-", "ingress">>,
       <<"apihost", "-", "my", "-", "api", "-", "ingress">>,
       <<"static", "-", "ingress">> >>

\* f"{user}-{ingress_suffix}"
original_name(user, ingress_suffix) == user \o <<"-">> \o ingress_suffix

\* the name without the replacement of dots
duplicate_new_name_dots(user, host, port, ingress_suffix) ==
    <<"alias", "-">> \o host \o <<"-">> \o Str(port) \o <<"-">>
    \o original_name(user, ingress_suffix)

\* duplicate_ingress: new_name
duplicate_new_name(user, host, port, ingress_suffix) ==
    Replace(<<"alias", "-">> \o host \o <<"-">> \o Str(port) \o <<"-">>
            \o original_name(user, ingress_suffix))

\* delete_ingress: ingress_name
delete_ingress_name(user, host, port, ingress_suffix) ==
    Replace(<<"alias", "-">> \o host \o <<"-">> \o Str(port) \o <<"-">>
            \o original_name(user, ingress_suffix))

\* create_network_alias: netplan_file
create_netplan_file(ip) == <<"/etc/netplan/50-">> \o ip \o <<".yaml">>

\* a netplan path with another extension than the one create writes
delete_netplan_file_yml(ip) == <<"/etc/netplan/50-">> \o ip \o <<".yml">>

\* delete_network_alias: netplan_file
delete_netplan_file(ip) == <<"/etc/netplan/50-">> \o ip \o <<".yaml">>

\* create_nginx_proxy: config_name, config_path, enabled_path
create_config_name(host, port) == host \o <<"-">> \o Str(port)

create_config_path(host, port) == <<"/etc/nginx/sites-available/">> \o create_config_name(host, port)

create_enabled_path(host, port) == <<"/etc/nginx/sites-enabled/">> \o create_config_name(host, port)

\* a config name with the dots of the host written as dashes
delete_config_name_dashed(host, port) == Replace(host) \o <<"-">> \o Str(port)

\* delete_nginx_proxy: config_name, config_path, enabled_path
delete_config_name(host, port) == host \o <<"-">> \o Str(port)

delete_config_path(host, port) == <<"/etc/nginx/sites-available/">> \o delete_config_name(host, port)

delete_enabled_path(host, port) == <<"/etc/nginx/sites-enabled/">> \o delete_config_name(host, port)

\* duplicate_ingress: temp_file
temp_file(new_name) == <<"/tmp/">> \o new_name \o <<".yaml">>

\* create_network_alias: netplan_content
netplan_content(ip, current_interface, current_netmask) ==
    <<"network:\n  ethernets:\n    ">> \o current_interface
    \o <<":\n      addresses:\n        - ">> \o ip \o <<"/">> \o Str(current_netmask) \o <<"\n">>

\* create_nginx_proxy: nginx_config
nginx_config(host, port, user_apihost) ==
    <<"server {\n    listen ">> \o Str(port) \o <<";\n    server_name ">> \o host
    \o <<";\n\n    location / {\n        proxy_pass http://127.0.0.1:80;\n        proxy_set_header Host ">>
    \o user_apihost
    \o <<";\n        proxy_set_header X-Real-IP $remote_addr;\n        proxy_set_header X-Forwarded-For $proxy_add_x_forwarded_for;\n        proxy_set_header X-Forwarded-Proto $scheme;\n        proxy_set_header X-Forwarded-Port ">>
    \o Str(port) \o <<";\n    }\n}\n">>

\* get_user_apihost
get_user_apihost(current_apihost, user) ==
    IF Contains(current_apihost, "://")
    THEN BeforeFirst(current_apihost, "://") \o <<"://">> \o user \o <<".">>
         \o BeforeFirst(AfterFirst(current_apihost, "://"), "/")
    ELSE user \o <<".">> \o BeforeFirst(current_apihost, "/")

(***************************************************************************)
(* Ingress transform                                                       *)
(***************************************************************************)
LastApplied == "kubectl.kubernetes.io/last-applied-configuration"

\* duplicate_ingress: fields_to_remove
fields_to_remove == <<"uid", "resourceVersion", "generation", "creationTimestamp">>

\* duplicate_ingress: the mock ingress of the dry run
mock_ingress(name) ==
    [apiVersion |-> <<"networking.k8s.io/v1">>,
     kind |-> <<"Ingress">>,
     metadata |-> [name |-> name,
                   namespace |-> <<"nuvolaris">>,
                   uid |-> <<"mock-uid">>,
                   resourceVersion |-> <<"mock-version">>,
                   generation |-> 1,
                   creationTimestamp |-> <<"2025-01-01T00:00:00Z">>],
     spec |-> [ingressClassName |-> <<"nginx">>,
               rules |-> << [host |-> <<"original-host", ".", "example", ".", "com">>,
                             http |-> <<"example-service">>] >>],
     status |-> <<>>]

RECURSIVE pop_all(_, _)
pop_all(d, fields) == IF fields = <<>> THEN d ELSE pop_all(pop(d, Head(fields)), Tail(fields))

\* duplicate_ingress: remove the last-applied-configuration annotation
strip_annotations(metadata) ==
    IF "annotations" \in DOMAIN metadata
    THEN LET annotations == pop(metadata["annotations"], LastApplied)
         IN  IF DOMAIN annotations = {}
             THEN pop(metadata, "annotations")
             ELSE put(metadata, "annotations", annotations)
    ELSE metadata

\* the host written into every rule
set_host_all_rules(spec, host) ==
    IF "rules" \in DOMAIN spec /\ Len(spec["rules"]) > 0
    THEN put(spec, "rules", [i \in 1..Len(spec["rules"]) |-> put(spec["rules"][i], "host", host)])
    ELSE spec

\* duplicate_ingress: update host in rules
set_host(spec, host) ==
    IF "rules" \in DOMAIN spec /\ Len(spec["rules"]) > 0
    THEN put(spec, "rules", [spec["rules"] EXCEPT ![1] = put(@, "host", host)])
    ELSE spec

\* duplicate_ingress: from the ingress read to the ingress dumped
transform(ingress, new_name, host) ==
    LET metadata == put(strip_annotations(pop_all(ingress["metadata"], fields_to_remove)),
                        "name", new_name)
    IN  put(put(pop(ingress, "status"), "metadata", metadata),
            "spec", set_host(ingress["spec"], host))

(***************************************************************************)
(* The world a step acts on: the external state, the locals of main(),     *)
(* what the run has printed and done, how the run stands (ok; exit:        *)
(* sys.exit(1) was called; raise: an exception is on its way to the        *)
(* handler at the bottom of the file), and the result of the last call     *)
(* (rc, stdout, ret).  Each step is an operator from world to world; a     *)
(* step that finds the run ended leaves the world as it is.                *)
(***************************************************************************)
World ==
    [fs |-> fs, cluster |-> cluster, env |-> env, out |-> out, faults |-> faults,
     frame |-> frame, status |-> "ok", rc |-> 0, stdout |-> <<>>, ret |-> <<>>]

Emit(w, e) == [w EXCEPT !.out = Append(@, e)]

Say(w, msg) == Emit(w, [k |-> "print", msg |-> msg])

Raise(w, msg) == [Say(w, msg) EXCEPT !.status = "raise"]

Return(w, value) == [w EXCEPT !.ret = value]

\* an entry of the filesystem: a regular file with its content, or a symbolic link
File(content) == [link |-> FALSE, data |-> content]

Link(target) == [link |-> TRUE, data |-> target]

\* os.path.exists: a link whose target is gone does not exist
exists(w, path) ==
    /\ path \in DOMAIN w.fs
    /\ w.fs[path].link => w.fs[path].data \in DOMAIN w.fs

\* what the API server stores for an applied manifest
Served(manifest) ==
    put(put(manifest, "metadata",
            put(put(manifest["metadata"], "uid", <<"server-uid">>),
                "resourceVersion", <<"1">>)),
        "status", <<"loadBalancer">>)

GetApihost == " cm config -n nuvolaris -o jsonpath='{.metadata.annotations.apihost}'"

\* the words the shell makes of an argument text: it splits at every blank,
\* also at a blank that came in with an argument of the command line
RECURSIVE WordsFrom(_, _)
WordsFrom(text, word) ==
    IF text = <<>> THEN (IF word = <<>> THEN <<>> ELSE <<word>>)
    ELSE IF Head(text) = " "
    THEN (IF word = <<>> THEN <<>> ELSE <<word>>) \o WordsFrom(Tail(text), <<>>)
    ELSE IF Head(text) = "which "
    THEN <<Append(word, "which")>> \o WordsFrom(Tail(text), <<>>)
    ELSE WordsFrom(Tail(text), Append(word, Head(text)))

Words(text) == WordsFrom(text, <<>>)

Range(s) == {s[i] : i \in 1..Len(s)}

\* the effect of a command the shell runs.  how is what the environment does to
\* this call: "none", "fail" (non-zero exit, no effect) or "empty" (a read that
\* exits 0 and prints nothing)
Outcome(w, cmd, how) ==
    LET head == cmd[1]
        args == Words(Tail(cmd))
        names == Words(SubSeq(cmd, 2, Len(cmd) - 1))
        ingresses == Words(SubSeq(cmd, 3, Len(cmd) - 1))
        failed == [w EXCEPT !.rc = 1, !.stdout = <<>>]
        done(so) == [w EXCEPT !.rc = 0, !.stdout = so]
        read(so) == IF how = "empty" /\ w.faults < MaxFaults
                    THEN [w EXCEPT !.rc = 0, !.stdout = <<>>, !.faults = @ + 1]
                    ELSE [w EXCEPT !.rc = 0, !.stdout = so]
    IN  CASE how = "fail" /\ w.faults < MaxFaults ->
                 [w EXCEPT !.rc = 1, !.stdout = <<>>, !.faults = @ + 1]
          [] head = "hostname -I" -> read(Join(w.env.ips))
          [] head = "ip -j addr show" -> read(w.env.ifaces)
          [] head = "which " ->
                 IF (cmd[2] = "netplan" /\ w.env.netplan) \/ (cmd[2] = "nginx" /\ w.env.nginx)
                 THEN done(<<"/usr/sbin/">> \o Tail(cmd)) ELSE failed
          [] head = "kubectl get" /\ cmd[2] = GetApihost -> read(w.env.apihost)
          [] head = "kubectl get" /\ cmd[2] = " ingress " ->
                 IF Len(ingresses) = 1 /\ ingresses[1] \in DOMAIN w.cluster
                 THEN read(IF cmd[Len(cmd)] = " -n nuvolaris -o yaml"
                           THEN <<YamlDump(w.cluster[ingresses[1]])>> ELSE ingresses[1])
                 ELSE failed
          [] head = "sudo apt-get update && sudo apt-get install -y nginx" ->
                 [w EXCEPT !.rc = 0, !.stdout = <<>>, !.env.nginx = TRUE]
          [] head = "sudo mv " ->
                 IF Len(args) = 2 /\ args[1] \in DOMAIN w.fs
                 THEN [w EXCEPT !.rc = 0, !.stdout = <<>>,
                                !.fs = pop(put(w.fs, args[2], w.fs[args[1]]), args[1])]
                 ELSE failed
          [] head = "sudo ln -s " ->
                 IF Len(args) # 2 \/ args[2] \in DOMAIN w.fs THEN failed
                 ELSE [w EXCEPT !.rc = 0, !.stdout = <<>>,
                                !.fs = put(w.fs, args[2], Link(args[1]))]
          [] head = "sudo rm " ->
                 [w EXCEPT !.rc = IF Range(args) \subseteq DOMAIN w.fs THEN 0 ELSE 1,
                           !.stdout = <<>>,
                           !.fs = [p \in DOMAIN w.fs \ Range(args) |-> w.fs[p]]]
          [] head = "kubectl apply -f " ->
                 IF Len(names) = 1 /\ names[1] \in DOMAIN w.fs /\ ~w.fs[names[1]].link
                 THEN [w EXCEPT !.rc = 0, !.stdout = <<"configured">>,
                          !.cluster = put(w.cluster,
                                          YamlLoad(w.fs[names[1]].data[1])["metadata"]["name"],
                                          Served(YamlLoad(w.fs[names[1]].data[1])))]
                 ELSE failed
          [] head = "kubectl delete ingress " ->
                 [w EXCEPT !.rc = IF Range(names) \subseteq DOMAIN w.cluster THEN 0 ELSE 1,
                           !.stdout = <<>>,
                           !.cluster = [n \in DOMAIN w.cluster \ Range(names) |-> w.cluster[n]]]
          [] OTHER -> done(<<>>)

Executed(r, cmd) == Emit(r, [k |-> "exec", cmd |-> cmd, rc |-> r.rc])

\* run_command: subprocess.run(cmd, shell=True, ...)
Execute(w, cmd, how) == Executed(Outcome(w, cmd, how), cmd)

\* run_command: read_only_patterns
read_only_patterns == {"kubectl get", "kubectl describe", "hostname -I", "ip -j addr show", "which "}

\* run_command: is_read_only
is_read_only(cmd) == \E pattern \in read_only_patterns : Contains(cmd, pattern)

\* a dry run that goes on after a failed read when the caller tolerates the exit code
run_command_result_tolerant(r, cmd, check) ==
    IF DRY_RUN /\ is_read_only(cmd) /\ r.rc # 0 /\ check
    THEN [Say(r, "[DRY RUN ERROR] Read command failed") EXCEPT !.status = "exit"]
    ELSE IF check /\ r.rc # 0 THEN Raise(r, "Command failed")
    ELSE r

\* run_command: what becomes of the result of subprocess.run
run_command_result(r, cmd, check) ==
    IF DRY_RUN /\ is_read_only(cmd) /\ r.rc # 0
    THEN [Say(r, "[DRY RUN ERROR] Read command failed") EXCEPT !.status = "exit"]
    ELSE IF check /\ r.rc # 0 THEN Raise(r, "Command failed")
    ELSE r

\* run_command(cmd, check, capture_output)
run_command(w, cmd, check, how) ==
    IF w.status # "ok" THEN w
    ELSE IF DRY_RUN /\ ~is_read_only(cmd)
    THEN [Emit(w, [k |-> "would", cmd |-> cmd]) EXCEPT !.rc = 0, !.stdout = <<>>]
    ELSE run_command_result(Execute(w, cmd, how), cmd, check)

\* tempfile.NamedTemporaryFile: a fresh name under the temp directory
NamedTemporaryFile == <<"/tmp/", "tmpfile">>

Written(w, file_path, content) ==
    Emit([w EXCEPT !.fs = put(w.fs, file_path, File(content))],
         [k |-> "write", path |-> file_path, content |-> content])

\* write_file: the PermissionError branch
write_file_denied(w, file_path, content, use_sudo) ==
    IF use_sudo
    THEN run_command(Written(w, NamedTemporaryFile, content),
                     <<"sudo mv ">> \o NamedTemporaryFile \o <<" ">> \o file_path, TRUE, "none")
    ELSE Raise(w, "PermissionError")

\* write_file(file_path, content, use_sudo); open() raises PermissionError for a
\* system path when the process is not root, or when the environment says so
write_file(w, file_path, content, use_sudo, how) ==
    IF w.status # "ok" THEN w
    ELSE IF DRY_RUN /\ ~StartsWith(file_path, "/tmp/")
    THEN Emit(w, [k |-> "wouldwrite", path |-> file_path, content |-> content])
    ELSE IF how = "fail" /\ w.faults < MaxFaults
    THEN write_file_denied([w EXCEPT !.faults = @ + 1], file_path, content, use_sudo)
    ELSE IF ~StartsWith(file_path, "/tmp/") /\ ~w.env.root
    THEN write_file_denied(w, file_path, content, use_sudo)
    ELSE Written(w, file_path, content)

\* os.remove(path)
os_remove(w, path) ==
    IF w.status # "ok" THEN w
    ELSE IF path \in DOMAIN w.fs
    THEN Emit([w EXCEPT !.fs = pop(w.fs, path)], [k |-> "remove", path |-> path])
    ELSE Raise(w, "FileNotFoundError")

(***************************************************************************)
(* Discovery                                                               *)
(***************************************************************************)
MockIp == <<"192", ".", "168", ".", "1", ".", "100">>

MockNetworkInfo == [ifname |-> <<"eth0">>, prefixlen |-> 24]

MockApihost == <<"http", "://", "miniops", ".", "me">>

\* a current IP that falls back to the mock IP in normal mode too
current_ip_of_mock_always(r) ==
    IF r.status # "ok" THEN r
    ELSE IF Split(r.stdout) = <<>> THEN Return(Say(r, "[DRY RUN] Using mock IP"), MockIp)
    ELSE Return(r, Split(r.stdout)[1])

\* get_current_ip: from the result of hostname -I
current_ip_of(r) ==
    IF r.status # "ok" THEN r
    ELSE IF Split(r.stdout) = <<>>
    THEN IF DRY_RUN THEN Return(Say(r, "[DRY RUN] Using mock IP"), MockIp)
         ELSE Raise(r, "Could not determine current IP address")
    ELSE Return(r, Split(r.stdout)[1])

\* get_current_ip()
get_current_ip(w, how) == current_ip_of(run_command(w, <<"hostname -I">>, TRUE, how))

\* json.loads(stdout) succeeds
JsonOk(stdout) == Len(stdout) = 1 /\ "json" \in DOMAIN stdout[1]

\* the (interface, address) positions of the listing whose address is ip
Matches(interfaces, ip) ==
    {p \in (1..Len(interfaces)) \X (1..2) :
        /\ "addr_info" \in DOMAIN interfaces[p[1]]
        /\ p[2] <= Len(interfaces[p[1]]["addr_info"])
        /\ "local" \in DOMAIN interfaces[p[1]]["addr_info"][p[2]]
        /\ interfaces[p[1]]["addr_info"][p[2]]["local"] = ip}

FirstMatch(interfaces, ip) ==
    CHOOSE p \in Matches(interfaces, ip) :
        \A q \in Matches(interfaces, ip) : p[1] < q[1] \/ (p[1] = q[1] /\ p[2] <= q[2])

\* get_network_info: return iface['ifname'], addr.get('prefixlen', 24)
interface_of(iface, addr) ==
    [ifname |-> iface["ifname"],
     prefixlen |-> IF "prefixlen" \in DOMAIN addr THEN addr["prefixlen"] ELSE 24]

\* get_network_info: the scan of the interfaces
find_interface(r, interfaces, ip) ==
    IF Matches(interfaces, ip) # {}
    THEN Return(r, interface_of(interfaces[FirstMatch(interfaces, ip)[1]],
                                interfaces[FirstMatch(interfaces, ip)[1]]["addr_info"]
                                          [FirstMatch(interfaces, ip)[2]]))
    ELSE IF DRY_RUN
    THEN Return(Say(r, "[DRY RUN] IP not found, using mock network info"), MockNetworkInfo)
    ELSE Raise(r, "Could not find interface for IP")

\* get_network_info: from the result of ip -j addr show
network_info_of(r, ip) ==
    IF r.status # "ok" THEN r
    ELSE IF ~JsonOk(r.stdout)
    THEN IF DRY_RUN THEN Return(Say(r, "[DRY RUN] Using mock network info"), MockNetworkInfo)
         ELSE Raise(r, "Could not parse network interface information")
    ELSE find_interface(r, r.stdout[1]["json"], ip)

\* get_network_info(ip)
get_network_info(w, ip, how) ==
    network_info_of(run_command(w, <<"ip -j addr show">>, TRUE, how), ip)

\* an apihost that falls back to the mock apihost in normal mode too
apihost_of_mock_always(r) ==
    IF r.status # "ok" THEN r
    ELSE IF r.rc # 0 \/ Split(r.stdout) = <<>>
    THEN Return(Say(r, "[DRY RUN] Could not fetch apihost from cm/config, using mock data"),
                MockApihost)
    ELSE Return(r, r.stdout)

\* get_current_apihost: from the result of kubectl get cm
apihost_of(r) ==
    IF r.status # "ok" THEN r
    ELSE IF r.rc # 0 \/ Split(r.stdout) = <<>>
    THEN IF DRY_RUN
         THEN Return(Say(r, "[DRY RUN] Could not fetch apihost from cm/config, using mock data"),
                     MockApihost)
         ELSE Raise(r, "Could not read apihost from cm/config in namespace nuvolaris")
    ELSE Return(r, r.stdout)

\* get_current_apihost()
get_current_apihost(w, how) ==
    apihost_of(run_command(w, <<"kubectl get", GetApihost>>, FALSE, how))

(***************************************************************************)
(* Preflight                                                               *)
(***************************************************************************)
\* check_os()
check_os(w) ==
    IF w.status # "ok" THEN w
    ELSE IF ~w.env.debian THEN Raise(w, "This script requires Ubuntu/Debian Linux") ELSE w

\* a netplan check that lets the run go on without netplan
netplan_unchecked(r) == r

\* check_netplan: from the result of which netplan
netplan_checked(r) ==
    IF r.status = "ok" /\ r.rc # 0 THEN Raise(r, "netplan is not installed") ELSE r

\* check_netplan()
check_netplan(w, how) == netplan_checked(run_command(w, <<"which ", "netplan">>, FALSE, how))

\* check_and_install_nginx: from the result of the installation
nginx_installed(r) ==
    IF r.status = "ok" /\ r.rc # 0 THEN Raise(r, "Failed to install nginx") ELSE r

\* check_and_install_nginx: from the result of which nginx
nginx_checked(r, how) ==
    IF r.status # "ok" \/ r.rc = 0 THEN r
    ELSE nginx_installed(
             run_command(Say(r, "nginx not found, attempting to install..."),
                         <<"sudo apt-get update && sudo apt-get install -y nginx">>, FALSE, how))

\* check_and_install_nginx()
check_and_install_nginx(w, how1, how2) ==
    nginx_checked(run_command(w, <<"which ", "nginx">>, FALSE, how1), how2)

RECURSIVE check_ingresses(_, _, _, _)

\* check_ingresses: from the result of kubectl get ingress for the n-th name
ingress_checked(r, user, n, how) ==
    IF r.status = "ok" /\ r.rc # 0
    THEN Raise(r, "Required ingress not found in namespace nuvolaris")
    ELSE check_ingresses(r, user, n + 1, how)

\* check_ingresses(user): the loop over ingress_names, from the n-th name on
check_ingresses(w, user, n, how) ==
    IF n > Len(ingress_suffixes) \/ w.status # "ok" THEN w
    ELSE ingress_checked(
             run_command(w, <<"kubectl get", " ingress ">>
                            \o original_name(user, ingress_suffixes[n])
                            \o <<" -n nuvolaris">>, FALSE, how[n]),
             user, n, how)

\* preflight checks that are skipped in normal mode too
preflight_checks_skipped(w, user, how) ==
    Say(w, "Skipping preflight checks in dry-run mode...")

\* preflight_checks(user)
preflight_checks(w, user, how) ==
    IF DRY_RUN THEN Say(w, "Skipping preflight checks in dry-run mode...")
    ELSE check_ingresses(
             check_and_install_nginx(check_netplan(check_os(w), how[1]), how[2], how[3]),
             user, 1, SubSeq(how, 4, 6))

(***************************************************************************)
(* Reconciliation: apply                                                   *)
(***************************************************************************)
\* create_network_alias: write the netplan file, apply netplan
write_netplan(w, ip, current_interface, current_netmask, how) ==
    run_command(
        write_file(w, create_netplan_file(ip),
                   netplan_content(ip, current_interface, current_netmask), TRUE, how[1]),
        <<"sudo netplan apply">>, TRUE, how[2])

\* an alias created whatever the address is
create_network_alias_always(w, ip, current_ip, current_interface, current_netmask, how) ==
    IF w.status # "ok" THEN w
    ELSE write_netplan(w, ip, current_interface, current_netmask, how)

\* create_network_alias(ip, current_ip, current_interface, current_netmask)
create_network_alias(w, ip, current_ip, current_interface, current_netmask, how) ==
    IF w.status # "ok" THEN w
    ELSE IF ip = current_ip THEN Say(w, "IP matches current IP, no alias needed")
    ELSE write_netplan(w, ip, current_interface, current_netmask, how)

\* a symlink created without looking whether it is there
link_site_always(w, host, port, how) ==
    run_command(w, <<"sudo ln -s ">> \o create_config_path(host, port)
                   \o <<" ">> \o create_enabled_path(host, port), TRUE, how)

\* create_nginx_proxy: create symlink
link_site(w, host, port, how) ==
    IF w.status = "ok" /\ (DRY_RUN \/ ~exists(w, create_enabled_path(host, port)))
    THEN run_command(w, <<"sudo ln -s ">> \o create_config_path(host, port)
                        \o <<" ">> \o create_enabled_path(host, port), TRUE, how)
    ELSE w

\* nginx enabled, started and reloaded with every exit code tolerated
start_nginx_unchecked(w, how) ==
    run_command(
        run_command(
            run_command(w, <<"sudo systemctl enable nginx">>, FALSE, how[3]),
            <<"sudo systemctl start nginx">>, FALSE, how[4]),
        <<"sudo systemctl reload nginx">>, FALSE, how[5])

\* create_nginx_proxy: enable and start nginx
start_nginx(w, how) ==
    run_command(
        run_command(
            run_command(w, <<"sudo systemctl enable nginx">>, FALSE, how[3]),
            <<"sudo systemctl start nginx">>, FALSE, how[4]),
        <<"sudo systemctl reload nginx">>, TRUE, how[5])

\* create_nginx_proxy: the body after the test of the port
write_site(w, host, port, user_apihost, how) ==
    start_nginx(
        link_site(write_file(w, create_config_path(host, port),
                             nginx_config(host, port, user_apihost), TRUE, how[1]),
                  host, port, how[2]),
        how)

\* a proxy created whatever the port is
create_nginx_proxy_always(w, host, port, user_apihost, how) ==
    IF w.status # "ok" THEN w ELSE write_site(w, host, port, user_apihost, how)

\* create_nginx_proxy(host, port, user_apihost)
create_nginx_proxy(w, host, port, user_apihost, how) ==
    IF w.status # "ok" THEN w
    ELSE IF port = 80 THEN Say(w, "Port is 80, no nginx proxy needed")
    ELSE write_site(w, host, port, user_apihost, how)

\* duplicate_ingress: after kubectl apply
duplicate_applied(w, new_name) ==
    IF w.status # "ok" THEN w
    ELSE IF ~DRY_RUN THEN Say(os_remove(w, temp_file(new_name)), "Created ingress")
    ELSE Say(w, "[DRY RUN] Temp file kept for inspection")

\* duplicate_ingress: transform, write the temp file, apply it
duplicate_apply(w, ingress, new_name, host, how) ==
    duplicate_applied(
        run_command(
            write_file(w, temp_file(new_name),
                       <<YamlDump(transform(ingress, new_name, host))>>, FALSE, how[2]),
            <<"kubectl apply -f ">> \o temp_file(new_name) \o <<" -n nuvolaris">>, TRUE, how[3]),
        new_name)

\* a read that falls back to the mock ingress in normal mode too
duplicate_read_mock_always(r, user, host, port, ingress_suffix, how) ==
    IF r.status # "ok" THEN r
    ELSE IF r.rc # 0 \/ Len(r.stdout) = 0
    THEN duplicate_apply(Say(r, "[DRY RUN] Could not fetch ingress, using mock data"),
                         mock_ingress(original_name(user, ingress_suffix)),
                         duplicate_new_name(user, host, port, ingress_suffix), host, how)
    ELSE duplicate_apply(r, YamlLoad(r.stdout[1]),
                         duplicate_new_name(user, host, port, ingress_suffix), host, how)

\* duplicate_ingress: from the result of kubectl get ingress -o yaml
duplicate_read(r, user, host, port, ingress_suffix, how) ==
    IF r.status # "ok" THEN r
    ELSE IF r.rc # 0 \/ Len(r.stdout) = 0
    THEN IF DRY_RUN
         THEN duplicate_apply(Say(r, "[DRY RUN] Could not fetch ingress, using mock data"),
                              mock_ingress(original_name(user, ingress_suffix)),
                              duplicate_new_name(user, host, port, ingress_suffix), host, how)
         ELSE Raise(r, "Could not fetch ingress")
    ELSE duplicate_apply(r, YamlLoad(r.stdout[1]),
                         duplicate_new_name(user, host, port, ingress_suffix), host, how)

\* duplicate_ingress(user, host, port, ingress_suffix)
duplicate_ingress(w, user, host, port, ingress_suffix, how) ==
    duplicate_read(
        run_command(w, <<"kubectl get", " ingress ">> \o original_name(user, ingress_suffix)
                       \o <<" -n nuvolaris -o yaml">>, FALSE, how[1]),
        user, host, port, ingress_suffix, how)

(***************************************************************************)
(* Reconciliation: reverse                                                 *)
(***************************************************************************)
\* an alias removed without looking whether its file is there
delete_network_alias_always(w, ip, how) ==
    IF w.status # "ok" THEN w
    ELSE run_command(run_command(w, <<"sudo rm ">> \o delete_netplan_file(ip), TRUE, how[1]),
                     <<"sudo netplan apply">>, TRUE, how[2])

\* delete_network_alias(ip)
delete_network_alias(w, ip, how) ==
    IF w.status # "ok" THEN w
    ELSE IF DRY_RUN \/ exists(w, delete_netplan_file(ip))
    THEN run_command(run_command(w, <<"sudo rm ">> \o delete_netplan_file(ip), TRUE, how[1]),
                     <<"sudo netplan apply">>, TRUE, how[2])
    ELSE Say(w, "Network alias file not found")

\* delete_nginx_proxy: remove the config
delete_site_config(w, host, port, how) ==
    IF w.status # "ok" THEN w
    ELSE IF DRY_RUN \/ exists(w, delete_config_path(host, port))
    THEN run_command(
             run_command(w, <<"sudo rm ">> \o delete_config_path(host, port), TRUE, how[2]),
             <<"sudo systemctl reload nginx">>, FALSE, how[3])
    ELSE Say(w, "nginx config not found")

\* delete_nginx_proxy(host, port)
delete_nginx_proxy(w, host, port, how) ==
    IF w.status # "ok" THEN w
    ELSE delete_site_config(
             IF DRY_RUN \/ exists(w, delete_enabled_path(host, port))
             THEN run_command(w, <<"sudo rm ">> \o delete_enabled_path(host, port), TRUE, how[1])
             ELSE w,
             host, port, how)

\* delete_ingress: report
delete_reported(r) ==
    IF r.status # "ok" \/ DRY_RUN THEN r
    ELSE IF r.rc = 0 THEN Say(r, "Deleted ingress") ELSE Say(r, "Ingress not found")

\* delete_ingress(user, host, port, ingress_suffix)
delete_ingress(w, user, host, port, ingress_suffix, how) ==
    delete_reported(
        run_command(w, <<"kubectl delete ingress ">>
                       \o delete_ingress_name(user, host, port, ingress_suffix)
                       \o <<" -n nuvolaris">>, FALSE, how))

(***************************************************************************)
(* main(): input defaulting                                                *)
(***************************************************************************)
\* the n-th argument is there and not empty: len(sys.argv) > n and sys.argv[n]
Given(a, n) == Len(a) >= n /\ a[n] # <<>>

\* a host that defaults to the current address instead of the resolved one
default_host_current(a, current_ip, ip) == IF Given(a, 2) THEN a[2] ELSE current_ip

\* main: ip, host, port, delete
default_ip(a, current_ip) == IF Given(a, 4) THEN a[4] ELSE current_ip

default_host(a, current_ip, ip) == IF Given(a, 2) THEN a[2] ELSE ip

default_port(a) == IF Given(a, 3) THEN ParseInt(a[3]) ELSE 80

\* int(sys.argv[3]) raises
port_error(a) == Given(a, 3) /\ ~IsInt(a[3])

default_delete(a) ==
    IF Given(a, 5) THEN Lower(a[5]) \in {<<"true">>, <<"1">>, <<"yes">>} ELSE FALSE

(***************************************************************************)
(* The hosts, clusters and command lines the model runs the script on      *)
(***************************************************************************)
IP1 == <<"10", ".", "0", ".", "0", ".", "5">>

IP2 == <<"10", ".", "0", ".", "0", ".", "9">>

Interfaces(addr) ==
    << [json |-> << [ifname |-> <<"lo">>],
                    [ifname |-> <<"eth1">>, addr_info |-> <<addr>>] >>] >>

\* a Debian host with netplan and nginx, run by an unprivileged user with sudo
Host0 ==
    [ips |-> <<IP1, IP2>>,
     ifaces |-> Interfaces([local |-> IP1, prefixlen |-> 16]),
     apihost |-> <<"http", "://", "miniops", ".", "me">>,
     debian |-> TRUE, netplan |-> TRUE, nginx |-> TRUE, root |-> FALSE]

EnvSet ==
    {Host0,
     [Host0 EXCEPT !.ips = <<>>],
     [Host0 EXCEPT !.ifaces = Interfaces([local |-> IP1])],
     [Host0 EXCEPT !.ifaces = Interfaces([local |-> IP2, prefixlen |-> 16])],
     [Host0 EXCEPT !.ifaces = << [garbage |-> TRUE] >>],
     [Host0 EXCEPT !.apihost = <<"miniops", ".", "me", "/", "api">>],
     [Host0 EXCEPT !.debian = FALSE],
     [Host0 EXCEPT !.netplan = FALSE],
     [Host0 EXCEPT !.nginx = FALSE],
     [Host0 EXCEPT !.root = TRUE]}

Rule(host) == [host |-> host, http |-> <<"paths">>]

SourceIngress(name, annotations, rules) ==
    [apiVersion |-> <<"networking.k8s.io/v1">>,
     kind |-> <<"Ingress">>,
     metadata |-> [name |-> name,
                   namespace |-> <<"nuvolaris">>,
                   labels |-> <<"app">>,
                   uid |-> <<"uid-1">>,
                   resourceVersion |-> <<"42">>,
                   generation |-> 3,
                   creationTimestamp |-> <<"2024-05-01T00:00:00Z">>,
                   annotations |-> annotations],
     spec |-> [ingressClassName |-> <<"nginx">>, rules |-> rules],
     status |-> <<"loadBalancer">>]

OnlyLastApplied == [a \in {LastApplied} |-> <<"{}">>]

WithRewrite == [a \in {LastApplied, "nginx.ingress.kubernetes.io/rewrite-target"} |-> <<"{}">>]

\* the three ingresses of user u
Sources ==
    LET name(n) == original_name(<<"u">>, ingress_suffixes[n])
        src(n) == CASE n = 1 -> SourceIngress(name(1), OnlyLastApplied,
                                              <<Rule(<<"u", ".", "miniops", ".", "me">>),
                                                Rule(<<"www", ".", "u", ".", "me">>)>>)
                    [] n = 2 -> SourceIngress(name(2), WithRewrite,
                                              <<Rule(<<"u", ".", "miniops", ".", "me">>)>>)
                    [] n = 3 -> pop(SourceIngress(name(3), OnlyLastApplied,
                                                  << [http |-> <<"paths">>] >>), "status")
    IN  [x \in {name(n) : n \in 1..3} |-> src(CHOOSE n \in 1..3 : name(n) = x)]

ClusterSet == {Sources, pop(Sources, original_name(<<"u">>, ingress_suffixes[3]))}

Users == {<<"u">>, <<>>}

HostArgs == {<<>>, <<"h", ".", "x">>}

PortArgs == {<<>>, <<"0", "8", "0">>, <<"8", "0", "8", "0">>, <<"x">>}

IpArgs == {<<>>, IP2, <<"which ", "x">>}

DeleteArgs == {<<>>, <<"Yes">>, <<"no">>}

\* sys.argv[1:]: from no argument at all to all five
ArgvSet ==
    {SubSeq(a, 1, n) : a \in Users \X HostArgs \X PortArgs \X IpArgs \X DeleteArgs, n \in 0..5}

\* the command line of the next invocation: the same request, applied or reversed
Reruns(a) ==
    {a} \cup {SubSeq(a, 1, 4) \o d : d \in {d \in {<<>>, <<<<"Yes">>>>} : Len(a) >= 4}}

\* the host of the next invocation: as it was, or with the other address in front
Renumbered(e) ==
    [e EXCEPT !.ips = IF Len(e.ips) = 2 THEN <<e.ips[2], e.ips[1]>> ELSE e.ips,
              !.ifaces = IF Len(e.ips) = 2
                         THEN Interfaces([local |-> e.ips[2], prefixlen |-> 16])
                         ELSE e.ifaces]

\* the command lines run on every host and cluster
FewArgv == {<<>>, <<<<"u">>>>, <<<<"u">>, <<"h", ".", "x">>, <<"8", "0", "8", "0">>, IP2>>,
            <<<<"u">>, <<>>, <<>>, <<>>, <<"Yes">>>>}

frame0 ==
    [user |-> <<>>, current_ip |-> <<>>, current_interface |-> <<>>, current_netmask |-> 0,
     current_apihost |-> <<>>, user_apihost |-> <<>>, ip |-> <<>>, host |-> <<>>, port |-> 0,
     delete |-> FALSE, n |-> 1]

(***************************************************************************)
(* main(), one action per call                                             *)
(***************************************************************************)
How(at, kind, k) == [i \in 1..k |-> IF i = at THEN kind ELSE "none"]

CanFault(at) == at > 0 => faults < MaxFaults

\* the step ends: the run goes on at next, ends with 0 when next is "done", or
\* ends with 1 (sys.exit(1), or the handler of __main__)
Commit(w, next) ==
    /\ fs' = w.fs
    /\ cluster' = w.cluster
    /\ env' = w.env
    /\ faults' = w.faults
    /\ out' = IF w.status = "raise" THEN Append(w.out, [k |-> "print", msg |-> "Error:"]) ELSE w.out
    /\ pc' = IF w.status = "ok" THEN next ELSE "done"
    /\ exit_code' = IF w.status # "ok" THEN 1 ELSE IF next = "done" THEN 0 ELSE -1
    /\ frame' = IF w.status = "ok" THEN w.frame ELSE frame
    /\ UNCHANGED <<DRY_RUN, argv, runs, fin, fout>>

\* main: parse arguments
ParseArguments ==
    /\ pc = "main"
    /\ IF Len(argv) < 1
       THEN Commit([Say(World, "Usage: add-aliases.py USER [HOST] [PORT] [IP] [DELETE]")
                       EXCEPT !.status = "exit"], "done")
       ELSE Commit([World EXCEPT !.frame.user = argv[1]], "get_current_ip")

\* main: current_ip = ...
SetCurrentIp(r) == IF r.status = "ok" THEN [r EXCEPT !.frame.current_ip = r.ret] ELSE r

GetCurrentIp ==
    /\ pc = "get_current_ip"
    /\ \E kind \in {"none", "fail", "empty"} :
        /\ CanFault(IF kind = "none" THEN 0 ELSE 1)
        /\ Commit(SetCurrentIp(get_current_ip(World, kind)), "get_network_info")

\* main: current_interface, current_netmask = ...
SetNetworkInfo(r) ==
    IF r.status = "ok"
    THEN [r EXCEPT !.frame.current_interface = r.ret.ifname,
                   !.frame.current_netmask = r.ret.prefixlen]
    ELSE r

GetNetworkInfo ==
    /\ pc = "get_network_info"
    /\ \E kind \in {"none", "fail", "empty"} :
        /\ CanFault(IF kind = "none" THEN 0 ELSE 1)
        /\ Commit(SetNetworkInfo(get_network_info(World, frame.current_ip, kind)),
                  "get_current_apihost")

\* main: current_apihost, user_apihost = ...
SetApihost(r) ==
    IF r.status = "ok"
    THEN [r EXCEPT !.frame.current_apihost = r.ret,
                   !.frame.user_apihost = get_user_apihost(r.ret, r.frame.user)]
    ELSE r

GetCurrentApihost ==
    /\ pc = "get_current_apihost"
    /\ \E kind \in {"none", "fail", "empty"} :
        /\ CanFault(IF kind = "none" THEN 0 ELSE 1)
        /\ Commit(SetApihost(get_current_apihost(World, kind)), "set_defaults")

\* main: set defaults
SetDefaults ==
    /\ pc = "set_defaults"
    /\ IF port_error(argv)
       THEN Commit(Raise(World, "ValueError"), "done")
       ELSE Commit([World EXCEPT !.frame.ip = default_ip(argv, frame.current_ip),
                                 !.frame.host = default_host(argv, frame.current_ip,
                                                             default_ip(argv, frame.current_ip)),
                                 !.frame.port = default_port(argv),
                                 !.frame.delete = default_delete(argv)],
                   IF default_delete(argv) THEN "delete_nginx_proxy" ELSE "preflight_checks")

PreflightChecks ==
    /\ pc = "preflight_checks"
    /\ \E at \in 0..6 :
        /\ CanFault(at)
        /\ Commit(preflight_checks(World, frame.user, How(at, "fail", 6)),
                  "create_network_alias")

CreateNetworkAlias ==
    /\ pc = "create_network_alias"
    /\ \E at \in 0..2 :
        /\ CanFault(at)
        /\ Commit(create_network_alias(World, frame.ip, frame.current_ip,
                                       frame.current_interface, frame.current_netmask,
                                       How(at, "fail", 2)),
                  "create_nginx_proxy")

CreateNginxProxy ==
    /\ pc = "create_nginx_proxy"
    /\ \E at \in 0..5 :
        /\ CanFault(at)
        /\ Commit(create_nginx_proxy(World, frame.host, frame.port, frame.user_apihost,
                                     How(at, "fail", 5)),
                  "duplicate_ingresses")

\* the loop goes to the next suffix
NextSuffix(r) == IF r.status = "ok" THEN [r EXCEPT !.frame.n = @ + 1] ELSE r

\* duplicate_ingresses: one turn of the loop
DuplicateIngresses ==
    /\ pc = "duplicate_ingresses"
    /\ \E at \in 0..3, kind \in {"fail", "empty"} :
        /\ CanFault(at)
        /\ Commit(NextSuffix(duplicate_ingress(World, frame.user, frame.host, frame.port,
                                               ingress_suffixes[frame.n], How(at, kind, 3))),
                  IF frame.n = Len(ingress_suffixes) THEN "done" ELSE "duplicate_ingresses")

DeleteNginxProxy ==
    /\ pc = "delete_nginx_proxy"
    /\ \E at \in 0..3 :
        /\ CanFault(at)
        /\ Commit(delete_nginx_proxy(World, frame.host, frame.port, How(at, "fail", 3)),
                  "delete_network_alias")

DeleteNetworkAlias ==
    /\ pc = "delete_network_alias"
    /\ \E at \in 0..2 :
        /\ CanFault(at)
        /\ Commit(delete_network_alias(World, frame.ip, How(at, "fail", 2)),
                  "delete_ingresses")

\* delete_ingresses: one turn of the loop
DeleteIngresses ==
    /\ pc = "delete_ingresses"
    /\ \E kind \in {"none", "fail"} :
        /\ CanFault(IF kind = "none" THEN 0 ELSE 1)
        /\ Commit(NextSuffix(delete_ingress(World, frame.user, frame.host, frame.port,
                                            ingress_suffixes[frame.n], kind)),
                  IF frame.n = Len(ingress_suffixes) THEN "done" ELSE "delete_ingresses")

\* the finished invocation, as the next one finds it
Finished ==
    [argv |-> argv, exit_code |-> exit_code, out |-> out, frame |-> frame,
     fs |-> fs, cluster |-> cluster, faults |-> faults]

\* the script is invoked again, after a run that completed with no failure, on
\* the same cluster and on the host as the run left it
Restart ==
    /\ pc = "done"
    /\ exit_code = 0
    /\ faults = 0
    /\ Len(runs) + 1 < MaxRuns
    /\ runs' = Append(runs, Finished)
    /\ argv' \in Reruns(argv)
    /\ env' \in {env, Renumbered(env)}
    /\ pc' = "main"
    /\ frame' = frame0
    /\ out' = <<>>
    /\ exit_code' = -1
    /\ UNCHANGED <<DRY_RUN, fs, cluster, faults, fin, fout>>

Init ==
    /\ DRY_RUN \in BOOLEAN
    /\ argv \in ArgvSet
    /\ pc = "main"
    /\ frame = frame0
    /\ fs = [x \in {} |-> <<>>]
    /\ cluster \in ClusterSet
    /\ env \in EnvSet
    /\ argv \in FewArgv \/ (cluster = Sources /\ env = Host0)
    /\ out = <<>>
    /\ exit_code = -1
    /\ faults = 0
    /\ runs = <<>>
    /\ fin = <<>>
    /\ fout = <<>>

Next ==
    \/ ParseArguments
    \/ GetCurrentIp
    \/ GetNetworkInfo
    \/ GetCurrentApihost
    \/ SetDefaults
    \/ PreflightChecks
    \/ CreateNetworkAlias
    \/ CreateNginxProxy
    \/ DuplicateIngresses
    \/ DeleteNginxProxy
    \/ DeleteNetworkAlias
    \/ DeleteIngresses
    \/ Restart

Spec == Init /\ [][Next]_vars

(***************************************************************************)
(* The functions of the script on their own: names, targets and the        *)
(* ingress transform, applied to inputs drawn from bounded sets            *)
(***************************************************************************)
\* main, create branch: the paths and names the apply path computes
create_targets(a, current_ip) ==
    [netplan_file |-> create_netplan_file(default_ip(a, current_ip)),
     config_path |-> create_config_path(
                         default_host(a, current_ip, default_ip(a, current_ip)), default_port(a)),
     enabled_path |-> create_enabled_path(
                          default_host(a, current_ip, default_ip(a, current_ip)), default_port(a)),
     ingresses |-> [n \in 1..Len(ingress_suffixes) |->
                       duplicate_new_name(a[1],
                                          default_host(a, current_ip, default_ip(a, current_ip)),
                                          default_port(a), ingress_suffixes[n])]]

\* main, delete branch: the paths and names the reverse path computes
delete_targets(a, current_ip) ==
    [netplan_file |-> delete_netplan_file(default_ip(a, current_ip)),
     config_path |-> delete_config_path(
                         default_host(a, current_ip, default_ip(a, current_ip)), default_port(a)),
     enabled_path |-> delete_enabled_path(
                          default_host(a, current_ip, default_ip(a, current_ip)), default_port(a)),
     ingresses |-> [n \in 1..Len(ingress_suffixes) |->
                       delete_ingress_name(a[1],
                                           default_host(a, current_ip, default_ip(a, current_ip)),
                                           default_port(a), ingress_suffixes[n])]]

\* hosts: every name of up to MaxLen characters, and some with dots
HostTexts ==
    {t \in TextsUpTo({"a", "-", "1"}, MaxLen) : t[1] # "-" /\ t[Len(t)] # "-"}
        \cup {<<"h", ".", "x">>, <<"a", ".", "1">>, <<"devel", ".", "example", ".", "com">>}

UserTexts == {<<"u">>, <<"1", "-", "u">>, <<"d", ".", "v">>}

PortNumbers == {1, 80, 8080}

\* the keys of an alias ingress
Keys ==
    [user : UserTexts, host : HostTexts, port : PortNumbers, n : 1..Len(ingress_suffixes)]

\* a create request, and the delete request that gives the same user, host and port
Requests ==
    [user : {<<"u">>}, host : {<<>>, <<"h", ".", "x">>, <<"a">>},
     port : {<<>>, <<"8", "0", "8", "0">>, <<"0", "8", "0">>},
     ip : {<<>>, IP1, IP2}, current_ip : {IP1, IP2}]

create_argv(q) == <<q.user, q.host, q.port, q.ip>>

delete_argv(q) == <<q.user, q.host, q.port, <<>>, <<"true">>>>

\* the ingresses a cluster may hold: with and without rules, annotations, status
NoAnnotations == [a \in {} |-> <<>>]

IngressSet ==
    {SourceIngress(<<"u", "-", "static", "-", "ingress">>, an, rules) :
        an \in {OnlyLastApplied, WithRewrite, NoAnnotations},
        rules \in {<<>>,
                   <<Rule(<<"u", ".", "miniops", ".", "me">>)>>,
                   <<Rule(<<"u", ".", "miniops", ".", "me">>), Rule(<<"www", ".", "u", ".", "me">>)>>,
                   << [http |-> <<"paths">>] >>}}

Variants(g) ==
    {g, pop(g, "status"), put(g, "metadata", pop(g["metadata"], "annotations")),
     put(g, "spec", pop(g["spec"], "rules"))}

Ingresses == UNION {Variants(g) : g \in IngressSet}

Idle ==
    /\ DRY_RUN = FALSE
    /\ argv = <<>>
    /\ pc = "done"
    /\ frame = frame0
    /\ fs = [x \in {} |-> <<>>]
    /\ cluster = [x \in {} |-> <<>>]
    /\ env = Host0
    /\ out = <<>>
    /\ exit_code = 0
    /\ faults = 0
    /\ runs = <<>>

InitFunctions ==
    /\ Idle
    /\ fout = <<>>
    /\ \/ \E k \in Keys : fin = [op |-> "names", key |-> k]
       \/ \E q \in Requests : fin = [op |-> "targets", request |-> q]
       \/ \E g \in Ingresses, k \in Keys :
              /\ k.user = <<"u">> /\ k.port = 8080 /\ k.n = 3
              /\ k.host \in {<<"h", ".", "x">>, <<"devel", ".", "example", ".", "com">>}
              /\ fin = [op |-> "transform", ingress |-> g, key |-> k]

Applied(result) ==
    /\ fout = <<>>
    /\ fout' = <<result>>
    /\ UNCHANGED <<DRY_RUN, argv, pc, frame, fs, cluster, env, out, exit_code, faults, runs, fin>>

\* the name as duplicate_ingress and as delete_ingress compute it
Names ==
    /\ fin.op = "names"
    /\ Applied([new_name |-> duplicate_new_name(fin.key.user, fin.key.host, fin.key.port,
                                                ingress_suffixes[fin.key.n]),
                ingress_name |-> delete_ingress_name(fin.key.user, fin.key.host, fin.key.port,
                                                     ingress_suffixes[fin.key.n])])

\* the targets of a create request and of the delete request for the same triple
Targets ==
    /\ fin.op = "targets"
    /\ Applied([create |-> create_targets(create_argv(fin.request), fin.request.current_ip),
                delete |-> delete_targets(delete_argv(fin.request), fin.request.current_ip)])

\* the manifest duplicate_ingress dumps for an ingress it read
Transform ==
    /\ fin.op = "transform"
    /\ Applied([manifest |-> transform(fin.ingress,
                                       duplicate_new_name(fin.key.user, fin.key.host,
                                                          fin.key.port,
                                                          ingress_suffixes[fin.key.n]),
                                       fin.key.host)])

NextFunctions == Names \/ Targets \/ Transform

SpecFunctions == InitFunctions /\ [][NextFunctions]_vars

(***************************************************************************)
(* Properties of a run (specification Spec)                                *)
(***************************************************************************)
Last == runs[Len(runs)]

\* the paths present when the run started
PathsBefore == IF runs = <<>> THEN {} ELSE DOMAIN Last.fs

Queries == {"hostname -I", "ip -j addr show", "kubectl get", "kubectl describe", "which "}

NginxPaths == {"/etc/nginx/sites-available/", "/etc/nginx/sites-enabled/"}

NginxCommands ==
    {"sudo systemctl enable nginx", "sudo systemctl start nginx", "sudo systemctl reload nginx",
     "sudo ln -s "}

\* a netplan file was written: by open(), or by the move of the temp file
NetplanWritten(log) ==
    \E i \in 1..Len(log) :
        \/ log[i].k = "write" /\ log[i].path[1] = "/etc/netplan/50-"
        \/ log[i].k = "exec" /\ log[i].cmd[1] = "sudo mv "
                             /\ Contains(log[i].cmd, "/etc/netplan/50-")

NetplanApplied(log) ==
    \E i \in 1..Len(log) : log[i].k = "exec" /\ log[i].cmd = <<"sudo netplan apply">>

\* a proxy-site action was run or printed
NginxTouched(log) ==
    \E i \in 1..Len(log) :
        \/ log[i].k \in {"exec", "would"}
              /\ \/ log[i].cmd[1] \in NginxCommands
                 \/ log[i].cmd[1] = "sudo mv " /\ \E d \in NginxPaths : Contains(log[i].cmd, d)
        \/ log[i].k \in {"write", "wouldwrite"} /\ log[i].path[1] \in NginxPaths

IsManifest(e) == e.k = "write" /\ e.path[1] = "/tmp/" /\ e.path[Len(e.path)] = ".yaml"

\* the manifests duplicate_ingress wrote, in order
Manifests(log) == SelectSeq(log, IsManifest)

Said(log, msg) == \E i \in 1..Len(log) : log[i].k = "print" /\ log[i].msg = msg

IpIsCurrent ==
    frame.current_ip # <<>> /\ default_ip(argv, frame.current_ip) = frame.current_ip

PortIs80 == ~port_error(argv) /\ default_port(argv) = 80

Resolved == frame.host # <<>>

OnlyUser == Given(argv, 1) /\ \A n \in 2..5 : ~Given(argv, n)

\* C1: in a dry run only the fixed read-only queries are executed, no file outside
\* /tmp is written, and the filesystem outside /tmp and the cluster stay as they were
C1_DryRunOnlyQueries ==
    DRY_RUN =>
        /\ \A i \in 1..Len(out) : out[i].k = "exec" => out[i].cmd[1] \in Queries
        /\ \A i \in 1..Len(out) : out[i].k = "write" => StartsWith(out[i].path, "/tmp/")
        /\ \A p \in DOMAIN fs : StartsWith(p, "/tmp/")
        /\ cluster \in ClusterSet

\* C2 as stated: when the resolved ip is the current IP, no netplan file is written
\* and netplan apply is not executed, on a create and on a delete alike
C2_NoNetplanWhenIpIsCurrent ==
    IpIsCurrent => ~NetplanWritten(out) /\ ~NetplanApplied(out)

\* C2 amended: when the resolved ip is the current IP, no netplan file is written and
\* a create leaves the netplan file of that ip as it found it; netplan apply is
\* executed only by a delete in normal mode that found the file of that ip present
C2_NoNetplanWrittenWhenIpIsCurrent ==
    IpIsCurrent =>
        /\ ~NetplanWritten(out)
        /\ NetplanApplied(out) =>
               /\ default_delete(argv)
               /\ ~DRY_RUN
               /\ delete_netplan_file(frame.current_ip) \in PathsBefore
        /\ ~default_delete(argv) =>
               /\ ~NetplanApplied(out)
               /\ create_netplan_file(frame.current_ip) \in DOMAIN fs
                      => create_netplan_file(frame.current_ip) \in PathsBefore

C2_Witness ==
    /\ pc = "done" /\ exit_code = 0 /\ ~DRY_RUN
    /\ IpIsCurrent /\ ~default_delete(argv)
    /\ Said(out, "IP matches current IP, no alias needed")
    /\ Len(Manifests(out)) = 3

\* C3: on a create with port 80 no proxy-site action is run or printed (no write of
\* the site file, no link, no systemctl enable/start/reload), and no site file or
\* link named <host>-80 exists
C3_NoProxyOnPort80 ==
    /\ \A p \in DOMAIN fs :
           p[1] \in NginxPaths => SubSeq(p, Len(p) - 2, Len(p)) # <<"-", "8", "0">>
    /\ (PortIs80 /\ ~default_delete(argv)) => ~NginxTouched(out)

C3_Witness ==
    /\ pc = "done" /\ exit_code = 0 /\ ~DRY_RUN
    /\ Given(argv, 2) /\ Given(argv, 3) /\ Given(argv, 4) /\ PortIs80 /\ ~default_delete(argv)
    /\ Said(out, "Port is 80, no nginx proxy needed")
    /\ Len(Manifests(out)) = 3

\* the second of two applications of the same create request, on the same
\* discovered state and with no failure injected
SecondApply ==
    /\ runs # <<>>
    /\ pc = "done"
    /\ faults = 0
    /\ Last.exit_code = 0
    /\ Last.argv = argv
    /\ ~default_delete(argv)
    /\ frame.current_ip = Last.frame.current_ip
    /\ frame.current_interface = Last.frame.current_interface
    /\ frame.current_netmask = Last.frame.current_netmask
    /\ frame.current_apihost = Last.frame.current_apihost

\* C7: the second application of the same create request succeeds, writes the same
\* three manifests as the first, and leaves the same files and ingresses present
C7_Idempotent ==
    SecondApply =>
        /\ exit_code = 0
        /\ Manifests(out) = Manifests(Last.out)
        /\ Len(Manifests(out)) = Len(ingress_suffixes)
        /\ DOMAIN fs = DOMAIN Last.fs
        /\ DOMAIN cluster = DOMAIN Last.cluster

C7_Witness ==
    /\ SecondApply /\ ~DRY_RUN /\ exit_code = 0
    /\ frame.port # 80 /\ frame.ip # frame.current_ip
    /\ create_netplan_file(frame.ip) \in DOMAIN fs
    /\ create_enabled_path(frame.host, frame.port) \in DOMAIN fs
    /\ Cardinality(DOMAIN cluster) = 2 * Len(ingress_suffixes)

\* C9: a missing or empty IP resolves to the current IP, HOST to the resolved ip,
\* PORT to 80 and DELETE to false; a request with only USER that completes has
\* written three manifests with host equal to the current IP (all three served by
\* the cluster in normal mode), no netplan file and no proxy site
C9_Defaults ==
    /\ Resolved =>
           /\ ~Given(argv, 4) => frame.ip = frame.current_ip
           /\ ~Given(argv, 2) => frame.host = frame.ip
           /\ ~Given(argv, 3) => frame.port = 80
           /\ ~Given(argv, 5) => ~frame.delete
    /\ (OnlyUser /\ pc = "done" /\ exit_code = 0) =>
           /\ ~NetplanWritten(out) /\ ~NetplanApplied(out) /\ ~NginxTouched(out)
           /\ \A p \in DOMAIN fs : p[1] # "/etc/netplan/50-" /\ p[1] \notin NginxPaths
           /\ Len(Manifests(out)) = 3
           /\ \A i \in 1..Len(Manifests(out)) :
                  LET m == YamlLoad(Manifests(out)[i].content[1])
                  IN  /\ m["spec"]["rules"][1]["host"] = frame.current_ip
                      /\ ~DRY_RUN =>
                             /\ m["metadata"]["name"] \in DOMAIN cluster
                             /\ cluster[m["metadata"]["name"]]["spec"] = m["spec"]

C9_Witness ==
    /\ OnlyUser /\ pc = "done" /\ exit_code = 0 /\ ~DRY_RUN
    /\ frame.host = IP1 /\ frame.port = 80 /\ ~frame.delete
    /\ Len(Manifests(out)) = 3

PreflightFailures ==
    {"This script requires Ubuntu/Debian Linux", "netplan is not installed",
     "Failed to install nginx", "Required ingress not found in namespace nuvolaris"}

\* the run ended on a failed preflight check
PreflightFailed ==
    /\ pc = "done" /\ Len(out) >= 2
    /\ out[Len(out) - 1].k = "print" /\ out[Len(out) - 1].msg \in PreflightFailures

InstallNginx == <<"sudo apt-get update && sudo apt-get install -y nginx">>

\* a check of a create request in normal mode has failed: the OS marker, netplan,
\* the installation of nginx, or the read of an ingress
CheckFailed ==
    /\ ~DRY_RUN /\ ~default_delete(argv)
    /\ \E i \in 1..Len(out) :
           \/ out[i].k = "print" /\ out[i].msg \in PreflightFailures
           \/ /\ out[i].k = "exec" /\ out[i].rc # 0
              /\ \/ out[i].cmd \in {<<"which ", "netplan">>, InstallNginx}
                 \/ /\ Len(out[i].cmd) > 2
                    /\ out[i].cmd[1] = "kubectl get" /\ out[i].cmd[2] = " ingress "

\* an event that changes the host or the cluster
Mutating(e) ==
    \/ e.k \in {"write", "remove"}
    \/ e.k = "exec" /\ e.cmd[1] \notin Queries

\* the files and the ingresses are those the run found
AsFound ==
    IF runs = <<>> THEN fs = [x \in {} |-> <<>>] /\ cluster \in ClusterSet
    ELSE fs = Last.fs /\ cluster = Last.cluster

\* C11 as stated: a create request with a failed preflight check has ended with
\* exit code 1, and a run that ended on a failed preflight check has executed no
\* command that changes the host or the cluster and written no file
C11_NoMutationBeforeAbort ==
    /\ CheckFailed => pc = "done" /\ exit_code = 1
    /\ PreflightFailed => AsFound /\ \A i \in 1..Len(out) : ~Mutating(out[i])

\* C11 amended: a create request with a failed preflight check has ended with exit
\* code 1; a run that ended on a failed preflight check has written no file and
\* left files and ingresses as it found them, and the one command it may have
\* executed that changes the host is the installation of nginx, after which nginx
\* was not resolvable
C11_OnlyInstallBeforeAbort ==
    /\ CheckFailed => pc = "done" /\ exit_code = 1
    /\ PreflightFailed =>
           /\ AsFound
           /\ \A i \in 1..Len(out) :
                  Mutating(out[i]) =>
                      /\ out[i].k = "exec" /\ out[i].cmd = InstallNginx
                      /\ i > 2
                      /\ out[i - 2] = [k |-> "exec", cmd |-> <<"which ", "nginx">>, rc |-> 1]

C11_Witness ==
    /\ PreflightFailed /\ exit_code = 1 /\ ~DRY_RUN
    /\ out[Len(out) - 1].msg = "Required ingress not found in namespace nuvolaris"
    /\ \E i \in 1..Len(out) : out[i] = [k |-> "exec", cmd |-> InstallNginx, rc |-> 0]

Usage == [k |-> "print", msg |-> "Usage: add-aliases.py USER [HOST] [PORT] [IP] [DELETE]"]

\* C12: a request whose USER is missing or empty is rejected: once main has looked
\* at the arguments the run has ended with exit code 1, it has printed the usage
\* and nothing else, executed no command and written no file
C12_UserRequired ==
    (~Given(argv, 1) /\ pc # "main") =>
        /\ pc = "done" /\ exit_code = 1
        /\ out = <<Usage>>
        /\ AsFound

\* an event of the network-alias step, on either path
AliasEvent(e) ==
    \/ e.k = "print"
          /\ e.msg \in {"IP matches current IP, no alias needed", "Network alias file not found"}
    \/ e.k \in {"write", "wouldwrite"} /\ e.path[1] = "/etc/netplan/50-"
    \/ e.k \in {"exec", "would"}
          /\ \/ e.cmd = <<"sudo netplan apply">>
             \/ e.cmd[1] \in {"sudo mv ", "sudo rm "} /\ Contains(e.cmd, "/etc/netplan/50-")

\* an event of the proxy-site step, on either path
ProxyEvent(e) ==
    \/ e.k = "print"
          /\ e.msg \in {"Port is 80, no nginx proxy needed", "nginx config not found"}
    \/ e.k \in {"write", "wouldwrite"} /\ e.path[1] \in NginxPaths
    \/ e.k \in {"exec", "would"}
          /\ \/ e.cmd[1] \in NginxCommands
             \/ e.cmd[1] \in {"sudo mv ", "sudo rm "} /\ \E d \in NginxPaths : Contains(e.cmd, d)

\* the suffixes in the order the three ingresses are to be processed
SuffixOrder ==
    << <<"apihost", "-", "api", "-", "ingress">>,
       <<"apihost", "-", "my", "-", "api", "-", "ingress">>,
       <<"static", "-", "ingress">> >>

\* the names of the three alias ingresses of the request
AliasIngresses ==
    [n \in 1..3 |-> duplicate_new_name(frame.user, frame.host, frame.port, SuffixOrder[n])]

\* an event of the duplication or of the deletion of the alias ingress new_name
IngressEvent(e, new_name, suffix) ==
    \/ e.k \in {"write", "remove"} /\ e.path = temp_file(new_name)
    \/ e.k \in {"exec", "would"}
          /\ e.cmd \in {<<"kubectl get", " ingress ">> \o original_name(frame.user, suffix)
                            \o <<" -n nuvolaris -o yaml">>,
                        <<"kubectl apply -f ">> \o temp_file(new_name) \o <<" -n nuvolaris">>,
                        <<"kubectl delete ingress ">> \o new_name \o <<" -n nuvolaris">>}

\* an event that may be one of an ingress: a file under /tmp, or kubectl
MayBeIngressEvent(e) ==
    \/ e.k \in {"write", "remove"} /\ e.path[1] = "/tmp/"
    \/ e.k \in {"exec", "would"}
          /\ e.cmd[1] \in {"kubectl get", "kubectl apply -f ", "kubectl delete ingress "}

\* the place of an event in the order of the steps, 0 for an event of no step
Rank(e, new_names) ==
    IF AliasEvent(e) THEN (IF default_delete(argv) THEN 2 ELSE 1)
    ELSE IF ProxyEvent(e) THEN (IF default_delete(argv) THEN 1 ELSE 2)
    ELSE IF ~MayBeIngressEvent(e) THEN 0
    ELSE IF IngressEvent(e, new_names[1], SuffixOrder[1]) THEN 3
    ELSE IF IngressEvent(e, new_names[2], SuffixOrder[2]) THEN 4
    ELSE IF IngressEvent(e, new_names[3], SuffixOrder[3]) THEN 5
    ELSE 0

RECURSIVE Steps(_, _, _, _)

\* Steps, for an event of rank r
StepsFrom(log, new_names, seen, highest, r) ==
    IF r = 0 THEN Steps(log, new_names, seen, highest)
    ELSE IF r < highest THEN {0}
    ELSE Steps(log, new_names, seen \cup {r}, r)

\* the ranks of the events of log when they come in the order of the steps, {0}
\* when an event comes after an event of a later step
Steps(log, new_names, seen, highest) ==
    IF log = <<>> THEN seen
    ELSE StepsFrom(Tail(log), new_names, seen, highest, Rank(Head(log), new_names))

\* C13: the events of a run come in the order of the steps: on a create the alias,
\* then the proxy, then the three ingresses; on a delete the proxy, then the alias,
\* then the three ingresses; the ingresses in the order apihost-api-ingress,
\* apihost-my-api-ingress, static-ingress; a run that completes has gone through
\* all five
C13_Order ==
    Steps(out, AliasIngresses, {}, 0)
        \in IF pc = "done" /\ exit_code = 0 THEN {1..5} ELSE SUBSET (1..5)

C13_Witness ==
    /\ pc = "done" /\ exit_code = 0 /\ ~DRY_RUN /\ runs # <<>> /\ default_delete(argv)
    /\ \E i, j, k \in 1..Len(out) :
           /\ i < j /\ j < k
           /\ out[i].k = "exec" /\ out[i].cmd[1] = "sudo rm " /\ ProxyEvent(out[i])
           /\ out[j].k = "exec" /\ out[j].cmd[1] = "sudo rm " /\ AliasEvent(out[j])
           /\ out[k].k = "exec" /\ out[k].rc = 0
           /\ IngressEvent(out[k], AliasIngresses[3], SuffixOrder[3])
    /\ Len(Manifests(Last.out)) = 3

\* the read of the n-th ingress by check_ingresses
PreflightRead(n) ==
    <<"kubectl get", " ingress ">> \o original_name(frame.user, SuffixOrder[n])
    \o <<" -n nuvolaris">>

\* an event of a preflight check
PreflightEvent(e) ==
    \/ e.k = "print"
          /\ e.msg \in PreflightFailures \cup {"nginx not found, attempting to install..."}
    \/ e.k = "exec"
          /\ \/ e.cmd[1] = "which "
             \/ e.cmd = InstallNginx
             \/ e.cmd \in {PreflightRead(n) : n \in 1..3}

\* netplan was found and the three ingresses were read before the j-th event
ChecksPassedBefore(j) ==
    /\ \E i \in 1..(j - 1) : out[i] = [k |-> "exec", cmd |-> <<"which ", "netplan">>, rc |-> 0]
    /\ \A n \in 1..3 :
           \E i \in 1..(j - 1) : out[i] = [k |-> "exec", cmd |-> PreflightRead(n), rc |-> 0]

\* an event of the engine: of the alias, of the proxy or of an ingress
EngineEvent(e) == Rank(e, AliasIngresses) > 0

Skipping == "Skipping preflight checks in dry-run mode..."

\* C14 as stated: a delete request evaluates no preflight check, and on a create
\* request every event of the engine comes after the checks have passed
C14_PreflightExactlyOnCreate ==
    /\ default_delete(argv) =>
           \A i \in 1..Len(out) : ~PreflightEvent(out[i]) /\ ~Said(out, Skipping)
    /\ ~default_delete(argv) =>
           \A j \in 1..Len(out) : EngineEvent(out[j]) => ChecksPassedBefore(j)

\* C14 amended: a delete request evaluates no preflight check; on a create request
\* in normal mode every event of the engine comes after the checks have passed; on
\* a create request in dry-run mode no check is evaluated, and every event of the
\* engine comes after the message that the checks are skipped
C14_PreflightOnNormalCreate ==
    /\ default_delete(argv) =>
           \A i \in 1..Len(out) : ~PreflightEvent(out[i]) /\ ~Said(out, Skipping)
    /\ (~default_delete(argv) /\ ~DRY_RUN) =>
           /\ ~Said(out, Skipping)
           /\ \A j \in 1..Len(out) : EngineEvent(out[j]) => ChecksPassedBefore(j)
    /\ (~default_delete(argv) /\ DRY_RUN) =>
           /\ \A i \in 1..Len(out) : ~PreflightEvent(out[i])
           /\ \A j \in 1..Len(out) :
                  EngineEvent(out[j]) =>
                      \E i \in 1..(j - 1) : out[i] = [k |-> "print", msg |-> Skipping]

C14_Witness ==
    /\ pc = "create_nginx_proxy" /\ ~DRY_RUN /\ ~default_delete(argv)
    /\ out[Len(out)] = [k |-> "exec", cmd |-> <<"sudo netplan apply">>, rc |-> 0]
    /\ ChecksPassedBefore(Len(out) - 1)

\* the read of a source ingress by duplicate_ingress
DuplicateRead(e) ==
    /\ e.k = "exec" /\ Len(e.cmd) > 2
    /\ e.cmd[1] = "kubectl get" /\ e.cmd[2] = " ingress "
    /\ e.cmd[Len(e.cmd)] = " -n nuvolaris -o yaml"

UsingMock == [k |-> "print", msg |-> "[DRY RUN] Could not fetch ingress, using mock data"]

ReadFailed == [k |-> "print", msg |-> "[DRY RUN ERROR] Read command failed"]

\* the name of the source ingress in the command of a read
SourceName(e) == SubSeq(e.cmd, 3, Len(e.cmd) - 1)

\* the apply of the manifest of new_name, as a dry run shows it at position j: it is
\* printed, and the temp file is kept; when its text contains a read-only pattern
\* it is executed instead, and its failure ends the run
ApplyShown(j, new_name) ==
    LET apply == <<"kubectl apply -f ">> \o temp_file(new_name) \o <<" -n nuvolaris">>
    IN  IF is_read_only(apply)
        THEN /\ out[j].k = "exec" /\ out[j].cmd = apply
             /\ out[j].rc # 0 => out[j + 1] = ReadFailed /\ pc = "done" /\ exit_code = 1
        ELSE /\ out[j] = [k |-> "would", cmd |-> apply]
             /\ out[j + 1] = [k |-> "print", msg |-> "[DRY RUN] Temp file kept for inspection"]

\* the events i+1..i+4 are those of the duplication of the synthetic ingress of the
\* read at i: the message, the manifest, the apply
MockDuplicated(i) ==
    /\ Len(out) >= i + 4
    /\ out[i + 1] = UsingMock
    /\ IsManifest(out[i + 2])
    /\ \E n \in 1..3 :
           /\ SourceName(out[i]) = original_name(frame.user, SuffixOrder[n])
           /\ out[i + 2].path = temp_file(AliasIngresses[n])
           /\ YamlLoad(out[i + 2].content[1])
                  = transform(mock_ingress(SourceName(out[i])), AliasIngresses[n], frame.host)
           /\ ApplyShown(i + 3, AliasIngresses[n])

\* in normal mode a source ingress that cannot be read ends the run with 1
UnreadableIsFatal ==
    ~DRY_RUN =>
        \A i \in 1..Len(out) :
            /\ (DuplicateRead(out[i]) /\ out[i].rc # 0) =>
                   /\ pc = "done" /\ exit_code = 1 /\ Len(out) = i + 2
                   /\ out[i + 1] = [k |-> "print", msg |-> "Could not fetch ingress"]
            /\ out[i] # UsingMock

DiscoveryQueries == {<<"hostname -I">>, <<"ip -j addr show">>, <<"kubectl get", GetApihost>>}

\* the messages of the placeholders
MockMessages ==
    {"[DRY RUN] Using mock IP", "[DRY RUN] IP not found, using mock network info",
     "[DRY RUN] Using mock network info",
     "[DRY RUN] Could not fetch apihost from cm/config, using mock data"}

\* the query a placeholder message follows
QueryOf(msg) ==
    IF msg = "[DRY RUN] Using mock IP" THEN <<"hostname -I">>
    ELSE IF msg = "[DRY RUN] Could not fetch apihost from cm/config, using mock data"
    THEN <<"kubectl get", GetApihost>>
    ELSE <<"ip -j addr show">>

\* the discovered values are the placeholders the messages announce
MocksInFrame ==
    /\ Said(out, "[DRY RUN] Using mock IP") => frame.current_ip = MockIp
    /\ (\/ Said(out, "[DRY RUN] IP not found, using mock network info")
        \/ Said(out, "[DRY RUN] Using mock network info")) =>
           /\ frame.current_interface = MockNetworkInfo.ifname
           /\ frame.current_netmask = MockNetworkInfo.prefixlen
    /\ Said(out, "[DRY RUN] Could not fetch apihost from cm/config, using mock data") =>
           frame.current_apihost = MockApihost

\* in normal mode a discovery that fails, or finds nothing, ends the run with 1:
\* no placeholder is used and each discovered value is the one of the host
DiscoveryIsFatal ==
    ~DRY_RUN =>
        /\ \A i \in 1..Len(out) :
               /\ (out[i].k = "exec" /\ out[i].cmd \in DiscoveryQueries /\ out[i].rc # 0) =>
                      pc = "done" /\ exit_code = 1 /\ Len(out) = i + 2
               /\ out[i].k = "print" => out[i].msg \notin MockMessages
        /\ frame.current_ip # <<>> => env.ips # <<>> /\ frame.current_ip = env.ips[1]
        /\ frame.current_interface # <<>> =>
               /\ JsonOk(env.ifaces)
               /\ Matches(env.ifaces[1]["json"], frame.current_ip) # {}
        /\ frame.current_apihost # <<>> => frame.current_apihost = env.apihost

FailedMutation(e) == e.k = "exec" /\ e.rc # 0 /\ Mutating(e)

\* the commands run with check=False whose exit code is not looked at: systemctl
\* enable and start, the reload of a delete, and kubectl delete ingress
Tolerated(e) ==
    \/ e.cmd \in {<<"sudo systemctl enable nginx">>, <<"sudo systemctl start nginx">>}
    \/ e.cmd = <<"sudo systemctl reload nginx">> /\ default_delete(argv)
    \/ e.cmd[1] = "kubectl delete ingress "

\* the failure at i has ended the run: the error follows and nothing else
Aborted(i) == pc = "done" /\ exit_code = 1 /\ Len(out) = i + 2 /\ out[i + 2].msg = "Error:"

\* the destination of sudo mv <temp> <path>
Destination(cmd) == SubSeq(cmd, 5, Len(cmd))

\* what the commands of the run did is still done: what a create wrote, moved in
\* place or applied is present, what a delete removed is absent
NoRollback ==
    \A i \in 1..Len(out) :
        /\ (out[i].k = "write" /\ out[i].path[1] # "/tmp/") => out[i].path \in DOMAIN fs
        /\ (out[i].k = "exec" /\ out[i].rc = 0) =>
               /\ out[i].cmd[1] = "sudo mv " => Destination(out[i].cmd) \in DOMAIN fs
               /\ out[i].cmd[1] = "sudo ln -s " =>
                      create_enabled_path(frame.host, frame.port) \in DOMAIN fs
               /\ out[i].cmd[1] = "kubectl apply -f " =>
                      \E n \in 1..3 : /\ IngressEvent(out[i], AliasIngresses[n], SuffixOrder[n])
                                      /\ AliasIngresses[n] \in DOMAIN cluster
               /\ out[i].cmd[1] = "sudo rm " => Tail(out[i].cmd) \notin DOMAIN fs
               /\ out[i].cmd[1] = "kubectl delete ingress " =>
                      SubSeq(out[i].cmd, 2, Len(out[i].cmd) - 1) \notin DOMAIN cluster

\* C17 as stated: in normal mode a failed write or a failed mutating command ends
\* the run with 1, nothing is executed after it, and nothing is rolled back
C17_AnyFailureAborts ==
    ~DRY_RUN =>
        /\ NoRollback
        /\ \A i \in 1..Len(out) :
               /\ FailedMutation(out[i]) => Aborted(i)
               /\ out[i] = [k |-> "print", msg |-> "PermissionError"] => Aborted(i - 1)

\* C17 amended: in normal mode a failed write, and a failed mutating command other
\* than systemctl enable, systemctl start, the reload of a delete and kubectl delete
\* ingress, ends the run with 1, nothing is executed after it, and nothing is rolled
\* back; after a failure of one of those four the run goes on
C17_CheckedFailureAborts ==
    ~DRY_RUN =>
        /\ NoRollback
        /\ \A i \in 1..Len(out) :
               /\ (FailedMutation(out[i]) /\ ~Tolerated(out[i])) => Aborted(i)
               /\ (FailedMutation(out[i]) /\ Tolerated(out[i])) =>
                      /\ Len(out) = i => exit_code # 1
                      /\ Len(out) > i => out[i + 1] # [k |-> "print", msg |-> "Command failed"]
               /\ out[i] = [k |-> "print", msg |-> "PermissionError"] => Aborted(i - 1)

C17_Witness ==
    /\ ~DRY_RUN /\ pc = "done" /\ exit_code = 1 /\ ~default_delete(argv) /\ Len(out) > 2
    /\ out[Len(out) - 2] = [k |-> "exec", cmd |-> <<"sudo systemctl reload nginx">>, rc |-> 1]
    /\ NetplanWritten(out) /\ NetplanApplied(out)
    /\ create_netplan_file(frame.ip) \in DOMAIN fs
    /\ create_enabled_path(frame.host, frame.port) \in DOMAIN fs
    /\ \A i \in 1..Len(out) : out[i].k = "exec" => out[i].cmd[1] # "kubectl apply -f "

\* the netplan file, the two nginx files and the three alias ingresses of the
\* request are all absent from the files f and the ingresses c
Absent(f, c) ==
    /\ delete_netplan_file(frame.ip) \notin DOMAIN f
    /\ delete_config_path(frame.host, frame.port) \notin DOMAIN f
    /\ delete_enabled_path(frame.host, frame.port) \notin DOMAIN f
    /\ \A n \in 1..3 : AliasIngresses[n] \notin DOMAIN c

\* the run found none of its sub-resources
NothingPresent == runs # <<>> => Absent(Last.fs, Last.cluster)

\* the removal commands of a delete request
Removals ==
    {<<"sudo rm ">> \o delete_enabled_path(frame.host, frame.port),
     <<"sudo rm ">> \o delete_config_path(frame.host, frame.port),
     <<"sudo rm ">> \o delete_netplan_file(frame.ip)}
    \cup {<<"kubectl delete ingress ">> \o AliasIngresses[n] \o <<" -n nuvolaris">> : n \in 1..3}

\* a delete in normal mode that found nothing has executed no file removal, no
\* netplan apply and no reload, has left files and ingresses as they were, and
\* ends with 0
NoOpDelete ==
    (~DRY_RUN /\ default_delete(argv) /\ Resolved /\ NothingPresent) =>
        /\ \A i \in 1..Len(out) :
               out[i].k = "exec" =>
                   /\ out[i].cmd[1] # "sudo rm "
                   /\ out[i].cmd \notin {<<"sudo netplan apply">>, <<"sudo systemctl reload nginx">>}
                   /\ out[i].cmd[1] = "kubectl delete ingress " => out[i].rc # 0
        /\ \A i \in 1..Len(out) : out[i].k \notin {"write", "remove"}
        /\ AsFound
        /\ pc = "done" => exit_code = 0

\* a delete in dry-run mode that ended has shown every removal command
DryDeleteEmitsAll ==
    (DRY_RUN /\ default_delete(argv) /\ Resolved /\ pc = "done") =>
        \A cmd \in Removals :
            \E i \in 1..Len(out) : out[i].k \in {"would", "exec"} /\ out[i].cmd = cmd

\* C18: a delete request in normal mode that finds no netplan file, no nginx file
\* and no alias ingress executes no file removal, leaves the state unchanged and
\* ends with 0; a delete request in dry-run mode shows every removal command,
\* whether the resource exists or not
C18_DeleteOfNothing == NoOpDelete /\ DryDeleteEmitsAll

\* a delete in normal mode that succeeded (it ended with 0 and none of its commands
\* failed) after a create that succeeded, with the same USER, HOST, PORT and IP
\* and the same current IP
DeleteAfterCreate ==
    /\ runs # <<>> /\ pc = "done" /\ exit_code = 0 /\ ~DRY_RUN
    /\ \A i \in 1..Len(out) : out[i].k = "exec" => out[i].rc = 0
    /\ Last.exit_code = 0 /\ ~default_delete(Last.argv) /\ default_delete(argv)
    /\ Len(argv) = 5 /\ Len(Last.argv) >= 4 /\ SubSeq(argv, 1, 4) = SubSeq(Last.argv, 1, 4)
    /\ frame.current_ip = Last.frame.current_ip

Removed(e, dirs) ==
    /\ e.k = "exec" /\ e.rc = 0 /\ e.cmd[1] \in {"sudo rm ", "kubectl delete ingress "}
    /\ \E d \in dirs : Contains(e.cmd, d)

C21_NoTempManifestLeft ==
    (~DRY_RUN /\ pc = "done") =>
        \A i \in 1..Len(out) : IsManifest(out[i]) => out[i].path \notin DOMAIN fs

\* a run in normal mode that ended with 0 has removed every temp manifest it wrote
TempManifestsRemovedOnSuccess ==
    (~DRY_RUN /\ pc = "done" /\ exit_code = 0) =>
        \A i \in 1..Len(out) : IsManifest(out[i]) => out[i].path \notin DOMAIN fs

\* the messages of a discovery that found nothing
DiscoveryFailures ==
    {"Could not determine current IP address",
     "Could not parse network interface information",
     "Could not find interface for IP",
     "Could not read apihost from cm/config in namespace nuvolaris"}

\* a discovery of the run failed: its query, or what the query returned
DiscoveryFailed ==
    \E i \in 1..Len(out) :
        \/ out[i].k = "exec" /\ out[i].cmd \in DiscoveryQueries /\ out[i].rc # 0
        \/ out[i].k = "print" /\ out[i].msg \in DiscoveryFailures

\* the three discoveries succeeded, in the order of main, as the first events
Discovered ==
    /\ Len(out) >= 3
    /\ out[1] = [k |-> "exec", cmd |-> <<"hostname -I">>, rc |-> 0]
    /\ out[2] = [k |-> "exec", cmd |-> <<"ip -j addr show">>, rc |-> 0]
    /\ out[3] = [k |-> "exec", cmd |-> <<"kubectl get", GetApihost>>, rc |-> 0]
    /\ frame.current_ip # <<>> /\ frame.current_interface # <<>>
    /\ frame.current_apihost # <<>>

\* C22: on a delete request in normal mode every command that changes the host or
\* the cluster comes after the three discoveries have succeeded; a discovery that
\* failed has ended the run with 1, with no such command executed and the files
\* and the ingresses as the run found them
C22_DeleteAfterDiscovery ==
    (~DRY_RUN /\ default_delete(argv)) =>
        /\ \A j \in 1..Len(out) : Mutating(out[j]) => j > 3 /\ Discovered /\ ~DiscoveryFailed
        /\ DiscoveryFailed =>
               /\ pc = "done" /\ exit_code = 1
               /\ \A j \in 1..Len(out) : ~Mutating(out[j])
               /\ AsFound

C22_Witness ==
    /\ ~DRY_RUN /\ default_delete(argv) /\ pc = "done" /\ exit_code = 1
    /\ runs # <<>> /\ DOMAIN Last.fs # {}
    /\ Len(out) = 5
    /\ out[3] = [k |-> "exec", cmd |-> <<"kubectl get", GetApihost>>, rc |-> 1]
    /\ fs = Last.fs /\ cluster = Last.cluster

(***************************************************************************)
(* Properties of the functions (specification SpecFunctions)               *)
(***************************************************************************)
Dashed(c) == IF c = "." THEN "-" ELSE c

\* alias-<host>-<port>-<user>-<suffix>, as written
RawName(k) ==
    <<"alias", "-">> \o k.host \o <<"-">> \o Str(k.port) \o <<"-">> \o k.user \o <<"-">>
    \o ingress_suffixes[k.n]

AliasName(k) == [i \in 1..Len(RawName(k)) |-> Dashed(RawName(k)[i])]

HasDot(s) == \E i \in 1..Len(s) : s[i] = "."

\* C4 as stated: the delete request that gives only user, host and port computes the
\* netplan path, the two nginx paths and the three names of the create request
C4_SameTargets ==
    (fin.op = "targets" /\ fout # <<>>) => fout[1].create = fout[1].delete

\* C4 amended: the delete request that gives only user, host and port targets the
\* netplan file of the current IP; its targets are all those of the create request
\* when the create's ip was empty or the current IP, and its nginx paths and
\* ingress names are those of the create request whenever the host was given
C4_SameTargetsForSameIp ==
    (fin.op = "targets" /\ fout # <<>>) =>
        /\ fout[1].delete.netplan_file
               = <<"/etc/netplan/50-">> \o fin.request.current_ip \o <<".yaml">>
        /\ fin.request.ip \in {<<>>, fin.request.current_ip} => fout[1].create = fout[1].delete
        /\ fin.request.host # <<>> =>
               /\ fout[1].create.config_path = fout[1].delete.config_path
               /\ fout[1].create.enabled_path = fout[1].delete.enabled_path
               /\ fout[1].create.ingresses = fout[1].delete.ingresses

C4_Witness ==
    /\ fin.op = "targets" /\ fout # <<>>
    /\ fin.request.host = <<"h", ".", "x">> /\ fin.request.port = <<"8", "0", "8", "0">>
    /\ fin.request.ip = IP2 /\ fin.request.current_ip = IP1
    /\ fout[1].create.netplan_file # fout[1].delete.netplan_file
    /\ fout[1].create.enabled_path = fout[1].delete.enabled_path

\* C5: duplicate_ingress and delete_ingress compute the same name, which is
\* alias-<host>-<port>-<user>-<suffix> with every dot replaced by a dash
C5_SameAliasName ==
    (fin.op = "names" /\ fout # <<>>) =>
        /\ fout[1].new_name = fout[1].ingress_name
        /\ fout[1].new_name = AliasName(fin.key)

C5_Witness ==
    /\ fin.op = "names" /\ fout # <<>>
    /\ HasDot(fin.key.host) /\ HasDot(fin.key.user)
    /\ ~HasDot(fout[1].new_name)
    /\ fout[1].ingress_name = fout[1].new_name

\* the two keys differ by nothing but dots written as dashes
SameUpToDots(k1, k2) ==
    /\ Replace(k1.host) = Replace(k2.host)
    /\ Replace(k1.user) = Replace(k2.user)
    /\ k1.port = k2.port
    /\ k1.n = k2.n

\* C6: two distinct keys that differ by more than dots written as dashes have
\* different alias names
C6_CollisionFree ==
    (fin.op = "names" /\ fout # <<>>) =>
        \A k \in Keys :
            (k # fin.key /\ ~SameUpToDots(k, fin.key)) =>
                duplicate_new_name(k.user, k.host, k.port, ingress_suffixes[k.n])
                    # fout[1].new_name

HasRule(g) == "rules" \in DOMAIN g["spec"] /\ Len(g["spec"]["rules"]) > 0

\* the manifest m has what the ingress g has, but for the fields duplicate_ingress
\* is to strip or set
RestUnchanged(g, m) ==
    /\ DOMAIN m = DOMAIN g \ {"status"}
    /\ \A f \in DOMAIN m \ {"metadata", "spec"} : m[f] = g[f]
    /\ DOMAIN m["metadata"] \ {"annotations"}
           = ((DOMAIN g["metadata"] \ Range(fields_to_remove)) \cup {"name"}) \ {"annotations"}
    /\ \A f \in DOMAIN m["metadata"] \ {"name", "annotations"} : m["metadata"][f] = g["metadata"][f]
    /\ DOMAIN m["spec"] = DOMAIN g["spec"]
    /\ \A f \in DOMAIN m["spec"] \ {"rules"} : m["spec"][f] = g["spec"][f]
    /\ "rules" \in DOMAIN g["spec"] =>
           /\ Len(m["spec"]["rules"]) = Len(g["spec"]["rules"])
           /\ \A i \in 2..Len(g["spec"]["rules"]) : m["spec"]["rules"][i] = g["spec"]["rules"][i]
           /\ Len(g["spec"]["rules"]) > 0 =>
                  /\ DOMAIN m["spec"]["rules"][1] = DOMAIN g["spec"]["rules"][1] \cup {"host"}
                  /\ \A f \in DOMAIN g["spec"]["rules"][1] \ {"host"} :
                         m["spec"]["rules"][1][f] = g["spec"]["rules"][1][f]

\* the annotations of m are those of g without the last-applied one, and there is
\* no annotations map when none is left
AnnotationsStripped(g, m) ==
    LET before == IF "annotations" \in DOMAIN g["metadata"]
                  THEN g["metadata"]["annotations"] ELSE NoAnnotations
    IN  IF DOMAIN before \ {LastApplied} = {}
        THEN "annotations" \notin DOMAIN m["metadata"]
        ELSE /\ "annotations" \in DOMAIN m["metadata"]
             /\ DOMAIN m["metadata"]["annotations"] = DOMAIN before \ {LastApplied}
             /\ \A a \in DOMAIN before \ {LastApplied} :
                    m["metadata"]["annotations"][a] = before[a]

HostSet(m, host) ==
    /\ "rules" \in DOMAIN m["spec"]
    /\ Len(m["spec"]["rules"]) > 0
    /\ "host" \in DOMAIN m["spec"]["rules"][1]
    /\ m["spec"]["rules"][1]["host"] = host

\* C8 as stated: for every source ingress the manifest has the alias name, the
\* request host in its first rule, no status, none of the four server-side metadata
\* fields, no last-applied annotation, and every other field of the source
C8_Manifest ==
    (fin.op = "transform" /\ fout # <<>>) =>
        /\ fout[1].manifest["metadata"]["name"] = AliasName(fin.key)
        /\ HostSet(fout[1].manifest, fin.key.host)
        /\ AnnotationsStripped(fin.ingress, fout[1].manifest)
        /\ RestUnchanged(fin.ingress, fout[1].manifest)

\* C8 amended: the same, with the request host in the first rule for every source
\* ingress that has at least one rule; a source without rules keeps its spec
C8_ManifestOfIngressWithRule ==
    (fin.op = "transform" /\ fout # <<>>) =>
        /\ fout[1].manifest["metadata"]["name"] = AliasName(fin.key)
        /\ HasRule(fin.ingress) => HostSet(fout[1].manifest, fin.key.host)
        /\ ~HasRule(fin.ingress) => fout[1].manifest["spec"] = fin.ingress["spec"]
        /\ AnnotationsStripped(fin.ingress, fout[1].manifest)
        /\ RestUnchanged(fin.ingress, fout[1].manifest)

C8_Witness ==
    /\ fin.op = "transform" /\ fout # <<>>
    /\ "status" \in DOMAIN fin.ingress
    /\ "annotations" \in DOMAIN fin.ingress["metadata"]
    /\ DOMAIN fin.ingress["metadata"]["annotations"] = {LastApplied}
    /\ HasRule(fin.ingress) /\ Len(fin.ingress["spec"]["rules"]) = 2
    /\ fout[1].manifest["spec"]["rules"][1]["host"] = fin.key.host
    /\ fout[1].manifest["spec"]["rules"][2] = fin.ingress["spec"]["rules"][2]
    /\ "annotations" \notin DOMAIN fout[1].manifest["metadata"]

====
